---- MODULE Spec2Model ----
(***************************************************************************)
(* Model of mdsumner/uwy.new:                                              *)
(*   scripts/update_underway.py  - update_parquet(), the incremental       *)
(*                                 fetch / merge / replace / rollback      *)
(*   scripts/detect_voyages.py   - detect_port(), group_voyages()          *)
(*                                                                         *)
(* A dataset file is a record [exists, data]; data is the sequence of the  *)
(* records' datetime values (integers 1..MaxT), in file order.  The file   *)
(* system is a function from the three paths update_parquet() touches to   *)
(* such files.  External collaborators (the release download, the WFS      *)
(* endpoint, DuckDB's COPY, the os calls of the merge section) may fail;   *)
(* every such failure is a nondeterministic branch of the step that calls  *)
(* it.                                                                     *)
(***************************************************************************)
EXTENDS Integers, Sequences, FiniteSets, TLC

VARIABLES
    pc,            \* position of update_parquet()
    fs,            \* path -> file
    release,       \* content of the snapshot at RELEASE_URL
    wfs,           \* datetime values of the records the WFS source holds
    has_existing,  \* local of update_parquet
    max_dt,        \* local of update_parquet
    count,         \* local of update_parquet
    new_df,        \* local of update_parquet (new_df / df)
    result,        \* what update_parquet() hands to its caller
    fs0,           \* history: OUTPUT_FILE when update_parquet() was invoked
    pre_merge,     \* history: OUTPUT_FILE when download_existing() returned
    downloaded,    \* history: what download_existing() returned
    fetch_failed,  \* history: fetch_from_wfs() caught an exception
    fault,         \* history: the last collaborator failure of this invocation
    clean,         \* history: no collaborator has failed since Init
    runs,          \* number of invocations of update_parquet() so far
    PORTS,         \* the port table detect_port() iterates
    lat,           \* detect_port argument
    lon,           \* detect_port argument
    port,          \* detect_port result
    dp_pc,         \* position of the detect_port caller
    visits,        \* group_voyages argument
    voyages,       \* group_voyages result
    gv_pc,         \* position of the group_voyages caller
    records,       \* group_port_visits argument (classified records)
    min_dwell_hours, \* the MIN_DWELL_HOURS setting in force
    gpv_visits,    \* local `visits` of group_port_visits, before the dwell filter
    revisits       \* result of aggregating the visits fed back as records

sync_vars == <<pc, fs, release, wfs, has_existing, max_dt, count, new_df, result,
               fs0, pre_merge, downloaded, fetch_failed, fault, clean, runs>>
port_vars == <<PORTS, lat, lon, port, dp_pc>>
voy_vars == <<visits, voyages, gv_pc>>
agg_vars == <<records, min_dwell_hours, gpv_visits, revisits>>
vars == <<pc, fs, release, wfs, has_existing, max_dt, count, new_df, result,
          fs0, pre_merge, downloaded, fetch_failed, fault, clean, runs,
          PORTS, lat, lon, port, dp_pc, visits, voyages, gv_pc,
          records, min_dwell_hours, gpv_visits, revisits>>

(* ---- bounds ---- *)
MaxT == 3
MaxSnap == 2
MaxRuns == 2

(* ---- update_underway.py: files ---- *)
None == 0

OUTPUT_FILE == "nuyina_underway.parquet"

backup_file == "nuyina_underway.parquet.bak"

temp_file_inplace == "nuyina_underway.parquet"

temp_file == "nuyina_underway.parquet.tmp"

Paths == {"nuyina_underway.parquet", "nuyina_underway.parquet.bak",
          "nuyina_underway.parquet.tmp"}

NoFile == [exists |-> FALSE, data |-> <<>>]

File(d) == [exists |-> TRUE, data |-> d]

Times == 1..MaxT

RECURSIVE SortedSeq(_)
SortedSeq(S) ==
    IF S = {} THEN <<>>
    ELSE LET m == CHOOSE x \in S : \A y \in S : x <= y
         IN <<m>> \o SortedSeq(S \ {m})

RECURSIVE SeqMax(_)
SeqMax(s) ==
    IF Len(s) = 0 THEN None
    ELSE LET r == SeqMax(Tail(s))
         IN IF Head(s) > r THEN Head(s) ELSE r

\* the files a COPY / copy2 that raised part-way can leave at its target:
\* the target as it was, or a file holding a proper prefix of the data
Truncated(old, d) ==
    {old} \cup {File(SubSeq(d, 1, k)) : k \in 0..(Len(d) - 1)}

\* datasets a snapshot or an earlier run can have left: sorted, no duplicates
Snapshots == {SortedSeq(S) : S \in {T \in SUBSET Times : Cardinality(T) <= MaxSnap}}

(* ---- update_underway.py: helpers ---- *)

\* fetch_from_wfs(since): the records the source returns when the request
\* succeeds; the CQL filter is datetime > since, no filter when since is None
newer_or_equal(t, since) == t >= since

newer(t, since) == t > since

fetch_from_wfs(since) ==
    SortedSeq({t \in wfs : since = None \/ newer(t, since)})

\* SELECT * FROM OUTPUT_FILE UNION ALL SELECT * FROM new_df
union_all_new_only(existing, new) == new

union_all(existing, new) == existing \o new

\* the check `if total > 0` on the staging file
validate_always(total) == TRUE

validate(total) == total > 0

\* the files the finally block removes
cleanup_temp_only == {temp_file}

cleanup_targets == {temp_file, backup_file}

(* ---- update_underway.py: update_parquet(), one action per call it makes ---- *)

SyncFrozen == UNCHANGED <<port_vars, voy_vars, agg_vars>>

\* main() calls update_parquet(); the locals of the new call are fresh
Invoke ==
    /\ pc \in {"idle", "returned"}
    /\ runs < MaxRuns
    /\ pc' = "download_existing"
    /\ runs' = runs + 1
    /\ fs0' = fs[OUTPUT_FILE]
    /\ pre_merge' = NoFile
    /\ has_existing' = FALSE
    /\ max_dt' = None
    /\ count' = 0
    /\ new_df' = <<>>
    /\ result' = "none"
    /\ downloaded' = FALSE
    /\ fetch_failed' = FALSE
    /\ fault' = "none"
    /\ UNCHANGED <<fs, release, wfs, clean>>
    /\ SyncFrozen

\* has_existing = download_existing(): True when the snapshot holds records
\* and was copied to OUTPUT_FILE; False, with OUTPUT_FILE as it was, when the
\* snapshot is empty or a query raised
DownloadExisting ==
    /\ pc = "download_existing"
    /\ \E outcome \in {"ok", "raises"} :
         \/ /\ outcome = "ok"
            /\ IF Len(release) > 0
               THEN /\ fs' = [fs EXCEPT ![OUTPUT_FILE] = File(release)]
                    /\ has_existing' = TRUE
               ELSE /\ fs' = fs
                    /\ has_existing' = FALSE
            /\ UNCHANGED <<clean, fault>>
         \/ /\ outcome = "raises"
            /\ fs' = fs
            /\ has_existing' = FALSE
            /\ clean' = FALSE
            /\ fault' = "download"
    /\ downloaded' = has_existing'
    /\ pre_merge' = fs'[OUTPUT_FILE]
    /\ pc' = IF has_existing' THEN "get_max_datetime" ELSE "fetch_full"
    /\ UNCHANGED <<release, wfs, max_dt, count, new_df, result, fs0, fetch_failed, runs>>
    /\ SyncFrozen

\* max_dt = get_max_datetime(); the else branch of `if max_dt` falls back
GetMaxDatetime ==
    /\ pc = "get_max_datetime"
    /\ \E outcome \in {"ok", "raises"} :
         \/ /\ outcome = "ok"
            /\ max_dt' = IF fs[OUTPUT_FILE].exists
                         THEN SeqMax(fs[OUTPUT_FILE].data) ELSE None
            /\ UNCHANGED <<clean, fault>>
         \/ /\ outcome = "raises"
            /\ max_dt' = None
            /\ clean' = FALSE
            /\ fault' = "get_max_datetime"
    /\ IF max_dt' # None
       THEN /\ pc' = "fetch_incremental"
            /\ has_existing' = has_existing
       ELSE /\ pc' = "fetch_full"
            /\ has_existing' = FALSE
    /\ UNCHANGED <<fs, release, wfs, count, new_df, result, fs0, pre_merge,
                   downloaded, fetch_failed, runs>>
    /\ SyncFrozen

\* count, new_df = fetch_from_wfs(since=max_dt); if count == 0: return True
FetchIncremental ==
    /\ pc = "fetch_incremental"
    /\ \E outcome \in {"ok", "raises"} :
         \/ /\ outcome = "ok"
            /\ new_df' = fetch_from_wfs(max_dt)
            /\ UNCHANGED <<fetch_failed, clean, fault>>
         \/ /\ outcome = "raises"
            /\ new_df' = <<>>
            /\ fetch_failed' = TRUE
            /\ clean' = FALSE
            /\ fault' = "fetch"
    /\ count' = Len(new_df')
    /\ IF count' = 0
       THEN /\ result' = "true"
            /\ pc' = "finally"
       ELSE /\ result' = result
            /\ pc' = "backup"
    /\ UNCHANGED <<fs, release, wfs, has_existing, max_dt, fs0, pre_merge,
                   downloaded, runs>>
    /\ SyncFrozen

\* shutil.copy2(OUTPUT_FILE, backup_file); not inside the inner try
Backup ==
    /\ pc = "backup"
    /\ \E outcome \in {"ok", "raises"} :
         \/ /\ outcome = "ok"
            /\ fs' = [fs EXCEPT ![backup_file] = fs[OUTPUT_FILE]]
            /\ pc' = "merge_write"
            /\ UNCHANGED <<result, clean, fault>>
         \/ /\ outcome = "raises"
            /\ \E f \in Truncated(fs[backup_file], fs[OUTPUT_FILE].data) :
                 fs' = [fs EXCEPT ![backup_file] = f]
            /\ result' = "raised"
            /\ pc' = "finally"
            /\ clean' = FALSE
            /\ fault' = "backup"
    /\ UNCHANGED <<release, wfs, has_existing, max_dt, count, new_df, fs0,
                   pre_merge, downloaded, fetch_failed, runs>>
    /\ SyncFrozen

\* COPY (existing UNION ALL new_df) TO temp_file
MergeWrite ==
    /\ pc = "merge_write"
    /\ \E outcome \in {"ok", "raises", "no_records"} :
         \/ /\ outcome = "ok"
            /\ fs' = [fs EXCEPT ![temp_file] =
                         File(union_all(fs[OUTPUT_FILE].data, new_df))]
            /\ pc' = "validate"
            /\ UNCHANGED <<clean, fault>>
         \/ /\ outcome = "raises"
            /\ \E f \in Truncated(fs[temp_file],
                                  union_all(fs[OUTPUT_FILE].data, new_df)) :
                 fs' = [fs EXCEPT ![temp_file] = f]
            /\ pc' = "restore"
            /\ clean' = FALSE
            /\ fault' = "merge_write"
         \/ \* COPY returns normally and the staging file holds no records
            /\ outcome = "no_records"
            /\ fs' = [fs EXCEPT ![temp_file] = File(<<>>)]
            /\ pc' = "validate"
            /\ clean' = FALSE
            /\ fault' = "staging_empty"
    /\ UNCHANGED <<release, wfs, has_existing, max_dt, count, new_df, result, fs0,
                   pre_merge, downloaded, fetch_failed, runs>>
    /\ SyncFrozen

\* total = SELECT COUNT(*) FROM temp_file; if total > 0 ... else raise ValueError
Validate ==
    /\ pc = "validate"
    /\ \E outcome \in {"ok", "raises"} :
         \/ /\ outcome = "ok"
            /\ fs[temp_file].exists
            /\ pc' = IF validate(Len(fs[temp_file].data)) THEN "replace" ELSE "restore"
            /\ UNCHANGED <<clean, fault>>
         \/ /\ outcome = "raises"
            /\ pc' = "restore"
            /\ clean' = FALSE
            /\ fault' = "validate"
    /\ UNCHANGED <<fs, release, wfs, has_existing, max_dt, count, new_df, result,
                   fs0, pre_merge, downloaded, fetch_failed, runs>>
    /\ SyncFrozen

\* os.replace(temp_file, OUTPUT_FILE)
Replace ==
    /\ pc = "replace"
    /\ \E outcome \in {"ok", "raises"} :
         \/ /\ outcome = "ok"
            /\ fs' = [fs EXCEPT ![temp_file] = NoFile,
                                ![OUTPUT_FILE] = fs[temp_file]]
            /\ pc' = "remove_backup"
            /\ UNCHANGED <<clean, fault>>
         \/ /\ outcome = "raises"
            /\ fs' = fs
            /\ pc' = "restore"
            /\ clean' = FALSE
            /\ fault' = "replace"
    /\ UNCHANGED <<release, wfs, has_existing, max_dt, count, new_df, result, fs0,
                   pre_merge, downloaded, fetch_failed, runs>>
    /\ SyncFrozen

\* os.remove(backup_file); return True
RemoveBackup ==
    /\ pc = "remove_backup"
    /\ \E outcome \in {"ok", "raises"} :
         \/ /\ outcome = "ok"
            /\ fs' = [fs EXCEPT ![backup_file] = NoFile]
            /\ result' = "true"
            /\ pc' = "finally"
            /\ UNCHANGED <<clean, fault>>
         \/ /\ outcome = "raises"
            /\ fs' = fs
            /\ result' = result
            /\ pc' = "restore"
            /\ clean' = FALSE
            /\ fault' = "remove_backup"
    /\ UNCHANGED <<release, wfs, has_existing, max_dt, count, new_df, fs0,
                   pre_merge, downloaded, fetch_failed, runs>>
    /\ SyncFrozen

\* except Exception: if backup exists: shutil.move(backup, OUTPUT_FILE); return False
Restore ==
    /\ pc = "restore"
    /\ fs' = IF fs[backup_file].exists
             THEN [fs EXCEPT ![backup_file] = NoFile,
                             ![OUTPUT_FILE] = fs[backup_file]]
             ELSE fs
    /\ result' = "false"
    /\ pc' = "finally"
    /\ UNCHANGED <<release, wfs, has_existing, max_dt, count, new_df, fs0,
                   pre_merge, downloaded, fetch_failed, fault, clean, runs>>
    /\ SyncFrozen

\* if not has_existing: count, df = fetch_from_wfs(); else-branch returns False
FetchFull ==
    /\ pc = "fetch_full"
    /\ \E outcome \in {"ok", "raises"} :
         \/ /\ outcome = "ok"
            /\ new_df' = fetch_from_wfs(None)
            /\ UNCHANGED <<fetch_failed, clean, fault>>
         \/ /\ outcome = "raises"
            /\ new_df' = <<>>
            /\ fetch_failed' = TRUE
            /\ clean' = FALSE
            /\ fault' = "fetch"
    /\ count' = Len(new_df')
    /\ IF count' > 0
       THEN /\ result' = result
            /\ pc' = "write_full"
       ELSE /\ result' = "false"
            /\ pc' = "finally"
    /\ UNCHANGED <<fs, release, wfs, has_existing, max_dt, fs0, pre_merge,
                   downloaded, runs>>
    /\ SyncFrozen

\* COPY (SELECT * FROM df) TO OUTPUT_FILE; return True
WriteFull ==
    /\ pc = "write_full"
    /\ \E outcome \in {"ok", "raises"} :
         \/ /\ outcome = "ok"
            /\ fs' = [fs EXCEPT ![OUTPUT_FILE] = File(new_df)]
            /\ result' = "true"
            /\ UNCHANGED <<clean, fault>>
         \/ /\ outcome = "raises"
            /\ \E f \in Truncated(fs[OUTPUT_FILE], new_df) :
                 fs' = [fs EXCEPT ![OUTPUT_FILE] = f]
            /\ result' = "raised"
            /\ clean' = FALSE
            /\ fault' = "write_full"
    /\ pc' = "finally"
    /\ UNCHANGED <<release, wfs, has_existing, max_dt, count, new_df, fs0,
                   pre_merge, downloaded, fetch_failed, runs>>
    /\ SyncFrozen

\* finally: remove temp_file and backup_file when they exist; then the call returns
Finally ==
    /\ pc = "finally"
    /\ fs' = [p \in Paths |-> IF p \in cleanup_targets THEN NoFile ELSE fs[p]]
    /\ pc' = "returned"
    /\ UNCHANGED <<release, wfs, has_existing, max_dt, count, new_df, result, fs0,
                   pre_merge, downloaded, fetch_failed, fault, clean, runs>>
    /\ SyncFrozen

(* ---- detect_voyages.py: defaults while the synchronizer runs ---- *)
PortIdle ==
    /\ PORTS = <<>>
    /\ lat = 0
    /\ lon = 0
    /\ port = "unset"
    /\ dp_pc = "off"

MIN_DWELL_HOURS == 2

AggIdle ==
    /\ records = <<>>
    /\ min_dwell_hours = MIN_DWELL_HOURS
    /\ gpv_visits = <<>>
    /\ revisits = <<>>

VoyIdle ==
    /\ visits = <<>>
    /\ voyages = <<>>
    /\ gv_pc = "off"
    /\ AggIdle

SyncIdle ==
    /\ pc = "off"
    /\ fs = [p \in Paths |-> NoFile]
    /\ release = <<>>
    /\ wfs = {}
    /\ has_existing = FALSE
    /\ max_dt = None
    /\ count = 0
    /\ new_df = <<>>
    /\ result = "none"
    /\ fs0 = NoFile
    /\ pre_merge = NoFile
    /\ downloaded = FALSE
    /\ fetch_failed = FALSE
    /\ fault = "none"
    /\ clean = TRUE
    /\ runs = 0

(* ---- specification of the synchronizer ---- *)
\* before the first call: any local dataset, possibly staging / backup files
\* left by a killed earlier process, any snapshot and any source content
Init ==
    /\ pc = "idle"
    /\ \E o \in {NoFile} \cup {File(d) : d \in Snapshots \ {<<>>}},
          t \in {NoFile, File(<<1>>)}, b \in {NoFile, File(<<1>>)} :
         fs = [p \in Paths |-> IF p = OUTPUT_FILE THEN o
                               ELSE IF p = backup_file THEN b ELSE t]
    /\ release \in Snapshots
    /\ wfs \in SUBSET Times
    /\ has_existing = FALSE
    /\ max_dt = None
    /\ count = 0
    /\ new_df = <<>>
    /\ result = "none"
    /\ fs0 = NoFile
    /\ pre_merge = NoFile
    /\ downloaded = FALSE
    /\ fetch_failed = FALSE
    /\ fault = "none"
    /\ clean = TRUE
    /\ runs = 0
    /\ PortIdle
    /\ VoyIdle

Next ==
    \/ Invoke
    \/ DownloadExisting
    \/ GetMaxDatetime
    \/ FetchIncremental
    \/ Backup
    \/ MergeWrite
    \/ Validate
    \/ Replace
    \/ RemoveBackup
    \/ Restore
    \/ FetchFull
    \/ WriteFull
    \/ Finally

Spec == Init /\ [][Next]_vars


(* ---- properties of the synchronizer ---- *)

\* the fully merged content: the pre-merge records followed by all fetched records
Merged == File(pre_merge.data \o new_df)

\* line 128 has been passed: new records were found and the call has not yet
\* been followed by another
PastFoundNew ==
    /\ pc \in {"backup", "merge_write", "validate", "replace", "remove_backup",
               "restore", "finally", "returned"}
    /\ has_existing
    /\ max_dt # None
    /\ count > 0

\* C1: from the moment new records have been found until the call returns,
\* OUTPUT_FILE holds exactly the pre-merge content or exactly the fully merged
\* content, whichever step of the merge section fails.
C1_LiveIsPreMergeOrMerged ==
    PastFoundNew => fs[OUTPUT_FILE] \in {pre_merge, Merged}

\* C1 witness: the replace has put the merged content in place, the removal of
\* the backup then failed and the handler has moved the backup back
C1_Witness ==
    /\ pc = "returned"
    /\ PastFoundNew
    /\ fault = "remove_backup"
    /\ fs[OUTPUT_FILE] = pre_merge
    /\ pre_merge # Merged

\* C2 as stated: after a failed merge write or a failed validation the call
\* has returned failure and OUTPUT_FILE is what it was when update_parquet()
\* was invoked.
C2_RollbackToInvocationState ==
    (pc = "returned" /\ fault \in {"merge_write", "staging_empty", "validate"})
        => (result = "false" /\ fs[OUTPUT_FILE] = fs0)

\* C2 amended: after a failed merge write or a failed validation the call has
\* returned failure and OUTPUT_FILE is what download_existing() left, the
\* pre-merge dataset.
C2_RollbackToPreMerge ==
    (pc = "returned" /\ fault \in {"merge_write", "staging_empty", "validate"})
        => (result = "false" /\ fs[OUTPUT_FILE] = pre_merge)

\* C2 witness: the staging file held no records, validation rejected it and the
\* call has returned
C2_Witness ==
    /\ pc = "returned"
    /\ fault = "staging_empty"
    /\ result = "false"
    /\ fs[OUTPUT_FILE] = pre_merge
    /\ pre_merge.exists

\* the source holds no record newer than the local maximum timestamp, and the
\* call that found this out has returned
NoNewerAtSource ==
    /\ pc = "returned"
    /\ downloaded
    /\ max_dt # None
    /\ {t \in wfs : t > max_dt} = {}

C4_FailedFetchNeverSuccess ==
    (pc = "returned" /\ fetch_failed) => result # "true"

Usable(f) == f.exists /\ Len(f.data) > 0

\* C6: when a usable local dataset exists at the start of the call, the
\* snapshot step obtains nothing from the release and leaves OUTPUT_FILE
\* untouched.
C6_SnapshotOnlyWithoutLocalCopy ==
    (pc \in {"get_max_datetime", "fetch_full"} /\ Usable(fs0))
        => (~downloaded /\ fs[OUTPUT_FILE] = fs0)

\* C7: when the snapshot gave no local copy and the full fetch yielded nothing,
\* the call reports failure and no live, staging or backup file exists.
C7_NoArtifactAfterTotalFailure ==
    (pc = "returned" /\ ~downloaded /\ count = 0)
        => (result = "false" /\ \A p \in Paths : ~fs[p].exists)


\* the number of records of dataset d whose datetime is t
CountIn(d, t) == Cardinality({i \in 1..Len(d) : d[i] = t})

\* the merge path has returned success: the merged file was put in place and
\* the backup removed
Committed ==
    /\ pc = "returned"
    /\ PastFoundNew
    /\ result = "true"

\* C16: after a committed merge OUTPUT_FILE holds the pre-merge records, each
\* as often as before, followed by exactly the source's records newer than the
\* pre-merge maximum; every added record is strictly newer than that maximum
\* and the record count is old count + fetched count.
C16_CommittedMergeAddsOnlyNewer ==
    Committed =>
        LET old == pre_merge.data
            now == fs[OUTPUT_FILE].data
            top == SeqMax(old)
        IN /\ Len(now) = Len(old) + count
           /\ SubSeq(now, 1, Len(old)) = old
           /\ \A i \in (Len(old) + 1)..Len(now) : now[i] > top
           /\ \A t \in Times :
                CountIn(now, t) =
                    CountIn(old, t) + (IF t \in wfs /\ t > top THEN 1 ELSE 0)
           /\ \A t \in Times : CountIn(old, t) = 1 => CountIn(now, t) = 1

\* C16 witness: a snapshot of two records has been merged with one newer
\* record of a source that also holds an older one
C16_Witness ==
    /\ Committed
    /\ Len(pre_merge.data) = 2
    /\ count = 1
    /\ \E t \in wfs : t <= SeqMax(pre_merge.data)
    /\ Len(fs[OUTPUT_FILE].data) = 3

(* ---- detect_voyages.py: detect_port ---- *)
MaxPorts == 3
MaxLat == 3

KmPerDeg == 111

inf == 1000000

NoPort == "None"

PortNames == <<"Hobart", "Burnie", "Macquarie Island", "Heard Island",
               "Casey", "Davis", "Mawson">>

\* radius_km values: one below a degree of latitude, one above two degrees
Radii == {60, 230}

Lats == 0..MaxLat

Abs(x) == IF x < 0 THEN -x ELSE x

\* haversine_km for two points on one meridian (lon1 = lon2): d_lon = 0, so
\* a = sin(d_lat/2)^2 and R * 2 * atan2(sqrt(a), sqrt(1-a)) = R * |d_lat| in
\* radians, i.e. R*pi/180 = 111 km (whole km) per degree of latitude
haversine_km(lat1, lon1, lat2, lon2) == KmPerDeg * Abs(lat2 - lat1)

\* the test `if dist < best_dist`
closer_or_tied(dist, best_dist) == dist <= best_dist

closer(dist, best_dist) == dist < best_dist

\* the body of `for port in PORTS`, from the i-th port on
RECURSIVE detect_port_loop(_, _, _, _, _, _)
detect_port_loop(tbl, i, la, lo, best_port, best_dist) ==
    IF i > Len(tbl) THEN best_port
    ELSE LET dist == haversine_km(la, lo, tbl[i].lat, tbl[i].lon)
         IN IF closer(dist, best_dist)
            THEN detect_port_loop(tbl, i + 1, la, lo,
                     IF dist <= tbl[i].radius_km THEN tbl[i].name ELSE best_port,
                     dist)
            ELSE detect_port_loop(tbl, i + 1, la, lo, best_port, best_dist)

detect_port(la, lo) == detect_port_loop(PORTS, 1, la, lo, NoPort, inf)

\* a caller classifies one coordinate
DetectPort ==
    /\ dp_pc = "call"
    /\ port' = detect_port(lat, lon)
    /\ dp_pc' = "done"
    /\ UNCHANGED <<PORTS, lat, lon, sync_vars, voy_vars, agg_vars>>

\* every table of 1..MaxPorts ports on the meridian lon = 0, in every order,
\* and every coordinate on it
InitPort ==
    /\ \E n \in 1..MaxPorts :
         \E f \in [1..n -> Lats \X Radii] :
           PORTS = [i \in 1..n |-> [name |-> PortNames[i], lat |-> f[i][1],
                                    lon |-> 0, radius_km |-> f[i][2]]]
    /\ lat \in Lats
    /\ lon = 0
    /\ port = "unset"
    /\ dp_pc = "call"
    /\ SyncIdle
    /\ VoyIdle

NextPort == DetectPort

SpecPort == InitPort /\ [][NextPort]_vars

(* ---- properties of detect_port ---- *)
Dist(i) == haversine_km(lat, lon, PORTS[i].lat, PORTS[i].lon)

Contains(i) == Dist(i) <= PORTS[i].radius_km

\* the globally nearest port, the first in iteration order on a tie
NearestIdx ==
    CHOOSE i \in 1..Len(PORTS) :
        /\ \A j \in 1..Len(PORTS) : Dist(i) <= Dist(j)
        /\ \A j \in 1..(i - 1) : Dist(j) > Dist(i)

\* C8: detect_port returns the globally nearest port (first on a tie) when the
\* point is within that port's own radius, and absent otherwise.
C8_NearestPortOrAbsent ==
    dp_pc = "done" =>
        port = IF Contains(NearestIdx) THEN PORTS[NearestIdx].name ELSE NoPort

ExactlyOneContains(i) ==
    /\ i \in 1..Len(PORTS)
    /\ Contains(i)
    /\ \A j \in 1..Len(PORTS) : j # i => ~Contains(j)

MaxVisits == 4

VisitPorts == {"Hobart", "Casey", "Davis"}

\* strftime('%Y-%m') on an instant counted in hours: the 30-day month it is in
strftime_ym(t) == t \div 720

\* is_new_voyage for the i-th visit (1-based; Python's i > 0 is i > 1 here)
is_new_voyage_any_hobart(vs, i) ==
    /\ vs[i].port = "Hobart"
    /\ i > 1

is_new_voyage_on_departure(vs, i) ==
    /\ vs[i].port # "Hobart"
    /\ i > 1
    /\ vs[i - 1].port = "Hobart"

is_new_voyage(vs, i) ==
    /\ vs[i].port = "Hobart"
    /\ i > 1
    /\ vs[i - 1].port # "Hobart"

\* the dict appended to voyages
make_voyage_end_of_first(voyage_num, current_stops) ==
    [id |-> <<voyage_num, strftime_ym(current_stops[1].arrive)>>,
     note |-> "",
     start |-> current_stops[1].arrive,
     end |-> current_stops[1].depart,
     stops |-> current_stops]

make_voyage(voyage_num, current_stops) ==
    [id |-> <<voyage_num, strftime_ym(current_stops[1].arrive)>>,
     note |-> "",
     start |-> current_stops[1].arrive,
     end |-> current_stops[Len(current_stops)].depart,
     stops |-> current_stops]

\* current_stops after the i-th iteration: emptied when the voyage was saved,
\* then current_stops.append(visit)
next_stops_drop_boundary(current_stops, visit, saved) ==
    IF saved THEN <<>> ELSE Append(current_stops, visit)

next_stops(current_stops, visit, saved) ==
    Append(IF saved THEN <<>> ELSE current_stops, visit)

\* `for i, visit in enumerate(visits)` from the i-th visit on, then the flush
\* of the last voyage
RECURSIVE group_voyages_loop(_, _, _, _, _)
group_voyages_loop(vs, i, acc, current_stops, voyage_num) ==
    IF i > Len(vs)
    THEN IF Len(current_stops) > 0
         THEN Append(acc, make_voyage(voyage_num + 1, current_stops))
         ELSE acc
    ELSE LET saved == is_new_voyage(vs, i) /\ Len(current_stops) > 0
         IN group_voyages_loop(vs, i + 1,
                IF saved THEN Append(acc, make_voyage(voyage_num + 1, current_stops))
                         ELSE acc,
                next_stops(current_stops, vs[i], saved),
                IF saved THEN voyage_num + 1 ELSE voyage_num)

group_voyages(vs) ==
    IF Len(vs) = 0 THEN <<>> ELSE group_voyages_loop(vs, 1, <<>>, <<>>, 0)

\* main() hands the visit sequence to group_voyages
GroupVoyages ==
    /\ gv_pc = "call"
    /\ voyages' = group_voyages(visits)
    /\ gv_pc' = "done"
    /\ UNCHANGED <<visits, sync_vars, port_vars, agg_vars>>

\* every sequence of up to MaxVisits visits over the ports; the i-th visit
\* arrives at hour 400*i and departs 200 hours later
InitVoyage ==
    /\ \E n \in 0..MaxVisits :
         \E f \in [1..n -> VisitPorts] :
           visits = [i \in 1..n |-> [port |-> f[i], arrive |-> 400 * i,
                                     depart |-> 400 * i + 200]]
    /\ voyages = <<>>
    /\ gv_pc = "call"
    /\ AggIdle
    /\ SyncIdle
    /\ PortIdle

NextVoyage == GroupVoyages

SpecVoyage == InitVoyage /\ [][NextVoyage]_vars

(* ---- properties of group_voyages ---- *)
RECURSIVE ConcatStops(_)
ConcatStops(vv) ==
    IF Len(vv) = 0 THEN <<>> ELSE Head(vv).stops \o ConcatStops(Tail(vv))

\* C10: the stops of the emitted voyages, concatenated in emission order, are
\* the input visit sequence, and every emitted voyage has at least one stop.
C10_VoyagesPartitionVisits ==
    gv_pc = "done" =>
        /\ ConcatStops(voyages) = visits
        /\ \A k \in 1..Len(voyages) : Len(voyages[k].stops) >= 1

\* C10 witness: a sequence with a return to Hobart has been split into more
\* than one voyage
C10_Witness ==
    /\ gv_pc = "done"
    /\ Len(voyages) >= 2
    /\ Len(visits) >= 3
    /\ ConcatStops(voyages) = visits


\* the positions at which a visit at Hobart immediately follows a visit at
\* another port
Boundaries(vs) ==
    {i \in 2..Len(vs) : vs[i].port = "Hobart" /\ vs[i - 1].port # "Hobart"}

\* C11 as stated: every visit sequence without a Hobart visit right after a
\* visit elsewhere yields exactly one voyage.
C11_NoBoundaryOneVoyage ==
    (gv_pc = "done" /\ Boundaries(visits) = {}) => Len(voyages) = 1

\* C11 amended: every non-empty visit sequence without a Hobart visit right
\* after a visit elsewhere yields exactly one voyage (the empty sequence
\* yields none).
C11_NoBoundaryOneVoyageIfNonEmpty ==
    (gv_pc = "done" /\ Boundaries(visits) = {}) =>
        Len(voyages) = IF Len(visits) = 0 THEN 0 ELSE 1

\* C11 witness: Hobart visits followed by visits elsewhere, no return, one
\* voyage emitted
C11_Witness ==
    /\ gv_pc = "done"
    /\ Boundaries(visits) = {}
    /\ Len(visits) >= 3
    /\ visits[1].port = "Hobart"
    /\ visits[2].port = "Hobart"
    /\ visits[Len(visits)].port # "Hobart"
    /\ Len(voyages) = 1

MaxRecs == 5

RecPorts == {NoPort, "Hobart", "Casey"}

\* hours from one record to the next; a negative step is an out-of-order input
Deltas == {-1, 1, 2}

\* the dict appended to visits when a run at a port ends
make_visit_first_only(current_port, current_records) ==
    [port |-> current_port,
     arrive |-> current_records[1].datetime,
     depart |-> current_records[1].datetime,
     arrive_gml_id |-> current_records[1].gml_id,
     depart_gml_id |-> current_records[1].gml_id,
     n_points |-> 1]

make_visit(current_port, current_records) ==
    [port |-> current_port,
     arrive |-> current_records[1].datetime,
     depart |-> current_records[Len(current_records)].datetime,
     arrive_gml_id |-> current_records[1].gml_id,
     depart_gml_id |-> current_records[Len(current_records)].gml_id,
     n_points |-> Len(current_records)]

\* `if current_port is not None and current_records: visits.append(...)`
end_visit(vs, current_port, current_records) ==
    IF current_port # NoPort /\ Len(current_records) > 0
    THEN Append(vs, make_visit(current_port, current_records))
    ELSE vs

\* `for rec in records` from the i-th record on, then the last visit
RECURSIVE group_port_visits_loop(_, _, _, _, _)
group_port_visits_loop(recs, i, vs, current_port, current_records) ==
    IF i > Len(recs) THEN end_visit(vs, current_port, current_records)
    ELSE LET rec == recs[i]
         IN IF rec.port # current_port
            THEN group_port_visits_loop(recs, i + 1,
                     end_visit(vs, current_port, current_records),
                     rec.port,
                     IF rec.port # NoPort THEN <<rec>> ELSE <<>>)
            ELSE group_port_visits_loop(recs, i + 1, vs, current_port,
                     IF rec.port # NoPort THEN Append(current_records, rec)
                                          ELSE current_records)

\* the list `visits` of group_port_visits before the filter
build_visits(recs) ==
    IF Len(recs) = 0 THEN <<>>
    ELSE group_port_visits_loop(recs, 1, <<>>, NoPort, <<>>)

\* `if dwell >= MIN_DWELL_HOURS`
dwell_ok_strict(dwell, min_dwell) == dwell > min_dwell

dwell_ok_always(dwell, min_dwell) == TRUE

dwell_ok(dwell, min_dwell) == dwell >= min_dwell

\* `for v in visits`: dwell = (depart - arrive) in hours; a kept visit gets
\* dwell_hours = round(dwell, 1), which for whole hours is dwell
RECURSIVE filter_dwell(_, _)
filter_dwell(vs, min_dwell) ==
    IF Len(vs) = 0 THEN <<>>
    ELSE LET v == Head(vs)
             dwell == v.depart - v.arrive
         IN IF dwell_ok(dwell, min_dwell)
            THEN <<[port |-> v.port, arrive |-> v.arrive, depart |-> v.depart,
                    arrive_gml_id |-> v.arrive_gml_id,
                    depart_gml_id |-> v.depart_gml_id,
                    n_points |-> v.n_points, dwell_hours |-> dwell]>>
                 \o filter_dwell(Tail(vs), min_dwell)
            ELSE filter_dwell(Tail(vs), min_dwell)

group_port_visits(recs, min_dwell) ==
    IF Len(recs) = 0 THEN <<>> ELSE filter_dwell(build_visits(recs), min_dwell)

\* visits = group_port_visits(records)
GroupPortVisits ==
    /\ gv_pc = "load"
    /\ gpv_visits' = build_visits(records)
    /\ visits' = group_port_visits(records, min_dwell_hours)
    /\ gv_pc' = "call"
    /\ UNCHANGED <<voyages, records, min_dwell_hours, revisits, sync_vars, port_vars>>

\* the returned visits fed back, one record per visit at the visit's port and
\* arrival time
refeed(vs) ==
    [i \in 1..Len(vs) |-> [gml_id |-> vs[i].arrive_gml_id,
                           datetime |-> vs[i].arrive,
                           port |-> vs[i].port]]

\* group_port_visits applied to its own output
Refeed ==
    /\ gv_pc = "call"
    /\ revisits' = group_port_visits(refeed(visits), min_dwell_hours)
    /\ gv_pc' = "refed"
    /\ UNCHANGED <<visits, voyages, records, min_dwell_hours, gpv_visits,
                   sync_vars, port_vars>>

\* every record sequence of up to MaxRecs records: any port or none per
\* record, the first at hour 10, each next one a step of Deltas later; the
\* dwell filter at MIN_DWELL_HOURS or disabled (0)
InitPipeline ==
    /\ \E n \in 0..MaxRecs :
         \E f \in [1..n -> RecPorts], d \in [2..n -> Deltas] :
           LET RECURSIVE at(_)
               at(i) == IF i = 1 THEN 10 ELSE at(i - 1) + d[i]
           IN records = [i \in 1..n |-> [gml_id |-> i, datetime |-> at(i),
                                         port |-> f[i]]]
    /\ min_dwell_hours \in {0, MIN_DWELL_HOURS}
    /\ gpv_visits = <<>>
    /\ revisits = <<>>
    /\ visits = <<>>
    /\ voyages = <<>>
    /\ gv_pc = "load"
    /\ SyncIdle
    /\ PortIdle

NextPipeline ==
    \/ GroupPortVisits
    \/ GroupVoyages
    \/ Refeed

SpecPipeline == InitPipeline /\ [][NextPipeline]_vars

(* ---- properties of group_port_visits ---- *)
\* [a, b] is a maximal run of consecutive records at one named port
IsRun(recs, a, b) ==
    /\ a <= b
    /\ recs[a].port # NoPort
    /\ \A i \in a..b : recs[i].port = recs[a].port
    /\ a = 1 \/ recs[a - 1].port # recs[a].port
    /\ b = Len(recs) \/ recs[b + 1].port # recs[a].port

\* the first records of the maximal runs
RunStarts(recs) ==
    {a \in 1..Len(recs) : \E b \in a..Len(recs) : IsRun(recs, a, b)}

RunEnd(recs, a) == CHOOSE b \in a..Len(recs) : IsRun(recs, a, b)

RECURSIVE SumPoints(_)
SumPoints(vs) == IF Len(vs) = 0 THEN 0 ELSE Head(vs).n_points + SumPoints(Tail(vs))

Aggregated == gv_pc \in {"call", "done", "refed"}

\* C12: before the dwell filter the visits are exactly the maximal runs of
\* consecutive records at the same named port, in input order, each with
\* arrive / depart = the run's first / last record and n_points = its length,
\* a trailing run included; with no absent record the n_points sum to the
\* input length.
C12_VisitsAreMaximalRuns ==
    Aggregated =>
        LET starts == SortedSeq(RunStarts(records))
        IN /\ Len(gpv_visits) = Len(starts)
           /\ \A k \in 1..Len(starts) :
                LET a == starts[k]
                    b == RunEnd(records, a)
                    v == gpv_visits[k]
                IN /\ v.port = records[a].port
                   /\ v.arrive = records[a].datetime
                   /\ v.arrive_gml_id = records[a].gml_id
                   /\ v.depart = records[b].datetime
                   /\ v.depart_gml_id = records[b].gml_id
                   /\ v.n_points = b - a + 1
           /\ (\A i \in 1..Len(records) : records[i].port # NoPort) =>
                SumPoints(gpv_visits) = Len(records)

\* C12 witness: two runs, the second one trailing at the end of the input and
\* longer than one record, no absent record
C12_Witness ==
    /\ Aggregated
    /\ Len(records) = 4
    /\ \A i \in 1..Len(records) : records[i].port # NoPort
    /\ Len(gpv_visits) = 2
    /\ gpv_visits[2].n_points = 3
    /\ gpv_visits[2].depart_gml_id = 4


Dwell(v) == v.depart - v.arrive

SameVisit(v, w) ==
    /\ v.port = w.port
    /\ v.arrive = w.arrive
    /\ v.depart = w.depart
    /\ v.arrive_gml_id = w.arrive_gml_id
    /\ v.depart_gml_id = w.depart_gml_id
    /\ v.n_points = w.n_points

\* C18: the returned visits are exactly the pre-filter visits whose dwell is
\* at least the threshold, in their original order; a dwell equal to the
\* threshold is kept, and with a positive threshold no single-record visit is
\* returned.
C18_FilterKeepsDwellAtLeastThreshold ==
    Aggregated =>
        LET kept == SortedSeq({k \in 1..Len(gpv_visits) :
                                  Dwell(gpv_visits[k]) >= min_dwell_hours})
        IN /\ Len(visits) = Len(kept)
           /\ \A j \in 1..Len(kept) :
                /\ SameVisit(visits[j], gpv_visits[kept[j]])
                /\ visits[j].dwell_hours = Dwell(gpv_visits[kept[j]])
           /\ min_dwell_hours > 0 =>
                \A j \in 1..Len(visits) : visits[j].n_points > 1

\* C18 witness: with the threshold at 2 hours a visit of exactly 2 hours has
\* been kept and a single-record visit dropped
C18_Witness ==
    /\ Aggregated
    /\ min_dwell_hours = MIN_DWELL_HOURS
    /\ \E j \in 1..Len(visits) : Dwell(visits[j]) = MIN_DWELL_HOURS
    /\ \E k \in 1..Len(gpv_visits) : gpv_visits[k].n_points = 1
    /\ Len(visits) < Len(gpv_visits)

NonMonotonic(recs) ==
    \E i \in 2..Len(recs) : recs[i].datetime < recs[i - 1].datetime

Refed == gv_pc = "refed" /\ min_dwell_hours = 0

\* C13 as stated, on records in timestamp order: with the dwell filter
\* disabled, aggregating the returned visits fed back as one record each
\* yields one visit per input visit, with the same ports in the same order.
C13_RefeedOneVisitPerVisit ==
    (Refed /\ ~NonMonotonic(records)) =>
        /\ Len(revisits) = Len(visits)
        /\ \A i \in 1..Len(revisits) : revisits[i].port = visits[i].port

\* C13 amended: with the dwell filter disabled, aggregating the returned
\* visits fed back as one record each yields one visit per maximal run of
\* consecutive visits at the same port (two visits at one port separated only
\* by absent records merge into one), a run whose last visit arrives earlier
\* than its first (out-of-order input) yielding none; it yields one visit per
\* input visit, same ports in the same order, when no two consecutive visits
\* are at the same port.
C13_RefeedOneVisitPerRunOfVisits ==
    Refed =>
        LET fed == refeed(visits)
            starts == SortedSeq({a \in RunStarts(fed) :
                          visits[RunEnd(fed, a)].arrive >= visits[a].arrive})
        IN /\ Len(revisits) = Len(starts)
           /\ \A k \in 1..Len(starts) :
                /\ revisits[k].port = visits[starts[k]].port
                /\ revisits[k].arrive = visits[starts[k]].arrive
                /\ revisits[k].n_points = RunEnd(fed, starts[k]) - starts[k] + 1
           /\ (\A i \in 2..Len(visits) : visits[i].port # visits[i - 1].port) =>
                /\ Len(revisits) = Len(visits)
                /\ \A i \in 1..Len(visits) : revisits[i].port = visits[i].port

\* C13 witness: three visits at alternating ports have been fed back and came
\* out as three visits
C13_Witness ==
    /\ Refed
    /\ Len(visits) = 3
    /\ \A i \in 2..Len(visits) : visits[i].port # visits[i - 1].port
    /\ Len(revisits) = 3

\* C15: on records with non-monotonic timestamps group_port_visits stops with
\* a DataOrderingError and returns no visits.
C15_OutOfOrderInputRejected ==
    (gv_pc # "load" /\ NonMonotonic(records)) =>
        (gv_pc = "DataOrderingError" /\ visits = <<>>)

\* C20: a Hobart run shorter than the threshold that lies between two kept
\* visits at other ports is in no voyage and starts none, and those two visits
\* are adjacent stops of one voyage.
C20_DroppedHobartDoesNotSplit ==
    gv_pc = "done" =>
        \A j \in 2..(Len(gpv_visits) - 1) :
            LET before == gpv_visits[j - 1]
                home == gpv_visits[j]
                after == gpv_visits[j + 1]
            IN (/\ home.port = "Hobart"
                /\ Dwell(home) < min_dwell_hours
                /\ before.port # "Hobart"
                /\ after.port # "Hobart"
                /\ Dwell(before) >= min_dwell_hours
                /\ Dwell(after) >= min_dwell_hours)
               => /\ \E k \in 1..Len(voyages) :
                       \E q \in 1..(Len(voyages[k].stops) - 1) :
                          /\ SameVisit(voyages[k].stops[q], before)
                          /\ SameVisit(voyages[k].stops[q + 1], after)
                  /\ \A k \in 1..Len(voyages) :
                       \A q \in 1..Len(voyages[k].stops) :
                          voyages[k].stops[q].arrive_gml_id # home.arrive_gml_id

\* C20 witness: Casey for two hours, one Hobart record, Casey for two hours,
\* threshold 2: one voyage of the two Casey stops
C20_Witness ==
    /\ gv_pc = "done"
    /\ min_dwell_hours = MIN_DWELL_HOURS
    /\ Len(gpv_visits) = 3
    /\ gpv_visits[2].port = "Hobart"
    /\ gpv_visits[2].n_points = 1
    /\ Len(visits) = 2
    /\ Len(voyages) = 1
    /\ Len(voyages[1].stops) = 2

(* ---- the worked scenario: Hobart, Hobart, sea, Casey ..., sea, Hobart ---- *)
MaxCasey == 4
MaxGap == 2

RECURSIVE SumSteps(_)
SumSteps(c) == IF Len(c) = 0 THEN 0 ELSE Head(c) + SumSteps(Tail(c))

\* the steps, in hours, between m + 1 Casey records that span 5 h
CaseySteps(m) == {c \in [1..m -> 0..5] : SumSteps(c) = 5}

\* records as load_data returns them (ordered by datetime, gml_id the row):
\* two Hobart records g hours apart, one record at sea, Len(c) + 1 Casey
\* records, one record at sea, one Hobart record
ScenarioRecords(g, s, c) ==
    LET steps == <<g, s[1], s[2]>> \o c \o <<s[3], s[4]>>
        ports == <<"Hobart", "Hobart", NoPort>>
                 \o [i \in 1..(Len(c) + 1) |-> "Casey"]
                 \o <<NoPort, "Hobart">>
        RECURSIVE at(_)
        at(i) == IF i = 1 THEN 10 ELSE at(i - 1) + steps[i - 1]
    IN [i \in 1..Len(ports) |-> [gml_id |-> i, datetime |-> at(i),
                                  port |-> ports[i]]]

InitScenario ==
    /\ \E g \in 0..(MIN_DWELL_HOURS - 1), s \in [1..4 -> 1..MaxGap],
          m \in 1..(MaxCasey - 1) :
         \E c \in CaseySteps(m) : records = ScenarioRecords(g, s, c)
    /\ min_dwell_hours = MIN_DWELL_HOURS
    /\ gpv_visits = <<>>
    /\ revisits = <<>>
    /\ visits = <<>>
    /\ voyages = <<>>
    /\ gv_pc = "load"
    /\ SyncIdle
    /\ PortIdle

NextScenario ==
    \/ GroupPortVisits
    \/ GroupVoyages

SpecScenario == InitScenario /\ [][NextScenario]_vars

\* C14: in the worked scenario with MIN_DWELL_HOURS = 2, group_port_visits
\* finds three visits, drops both Hobart visits and returns the single Casey
\* visit (first to last Casey record, 5 h), and group_voyages on that result
\* returns exactly one voyage whose only stop is that Casey visit.
C14_ScenarioSingleCaseyVoyage ==
    /\ gv_pc \in {"call", "done"} =>
          /\ Len(gpv_visits) = 3
          /\ Len(visits) = 1
          /\ visits[1].port = "Casey"
          /\ visits[1].arrive_gml_id = 4
          /\ visits[1].depart_gml_id = Len(records) - 2
          /\ visits[1].n_points = Len(records) - 5
          /\ visits[1].dwell_hours = 5
    /\ gv_pc = "done" =>
          /\ Len(voyages) = 1
          /\ voyages[1].stops = visits
          /\ voyages[1].start = visits[1].arrive
          /\ voyages[1].end = visits[1].depart

\* C14 witness: the scenario with three Casey records has been through both
\* functions; the first Hobart visit lasted one hour
C14_Witness ==
    /\ gv_pc = "done"
    /\ Len(records) = 8
    /\ records[2].datetime - records[1].datetime = 1
    /\ gpv_visits[1].port = "Hobart"
    /\ gpv_visits[3].port = "Hobart"
    /\ Len(voyages) = 1
    /\ Len(voyages[1].stops) = 1
    /\ voyages[1].stops[1].port = "Casey"

====
